---- MODULE Spec2Model ----
(***************************************************************************)
(* Model of the build orchestrator in src/src/main.ts: the command's run   *)
(* operation, the three run modes (build, fileWatch, memoryWatch), the dev *)
(* server assembler (serve) and the callbacks they register on the         *)
(* compiler, the promise chain and the listener.                           *)
(*                                                                         *)
(* The program is single threaded: every action below is one synchronous   *)
(* run of a handler (run itself, a promise reaction, a compiler callback,  *)
(* a lifecycle hook, the listen callback).  The functions of main.ts are   *)
(* operators from state record to state record, so that a function calling *)
(* another (run -> serve, fileWatch -> createWatchCompiler) is an operator *)
(* applying another.                                                       *)
(***************************************************************************)
EXTENDS Integers, Sequences, FiniteSets, TLC

VARIABLES
    args,       \* the parsed run arguments (immutable)
    fsKey,      \* .cert/server.key exists on disk
    fsCrt,      \* .cert/server.crt exists on disk
    config,     \* the webpack configuration (mutated in place by memoryWatch)
    pc,         \* "init" before run is called, "ran" afterwards
    returned,   \* which promise run returned: "none", "modeError", "serve", "prod"
    prod,       \* the promise returned by build / fileWatch / memoryWatch
    served,     \* the promise returned by serve (the end of its .then chain)
    chain,      \* position of serve's promise chain
    calls,      \* run modes invoked so far, in order
    compilers,  \* compiler instances constructed so far: the configuration each wraps
    compiler,   \* what the compiler is doing: "none", "running", "ranOnce", "watching"
    handlers,   \* lifecycle handlers registered with compiler.plugin, in order
    spinner,    \* the ora spinner is spinning
    app,        \* middlewares mounted on the express application, in order
    isHttps,    \* serve's isHttps flag
    listener,   \* the listener started by serve
    listeners,  \* the kind of every listener created and told to listen, in order
    exited,     \* "running", or "exit0" once process.exit(0) was called
    warnings,   \* console.warn output, in order
    reports,    \* calls of the Result Reporter (logger), in order
    cbLog,      \* the (err, stats) pairs the compiler delivered to the run / watch callback
    hooks       \* the "invalid" / "done" lifecycle events the compiler emitted

vars == <<args, fsKey, fsCrt, config, pc, returned, prod, served, chain, calls,
          compilers, compiler, handlers, spinner, app, isHttps, listener, listeners,
          exited, warnings, reports, cbLog, hooks>>

----------------------------------------------------------------------------
(* Bounds of the model *)

MaxPasses == 2
MaxHooks == 2
MaxProxy == 2

(* Program constants *)

DefaultPort == 9999

----------------------------------------------------------------------------
(* Inputs *)

Modes == {"dist", "dev", "test"}

WatchValues == {"none", "file", "memory"}

Ports == {DefaultPort}

\* A proxy rule: a key of args.proxy with its value, either a bare string
\* (typeof options === 'string', the string in str) or an options record
\* (in options).
ProxyRules ==
    { [context |-> "/a", isString |-> TRUE, str |-> "http://x",
       options |-> [target |-> "-", changeOrigin |-> "-"]],
      [context |-> "/b", isString |-> FALSE, str |-> "-",
       options |-> [target |-> "http://y", changeOrigin |-> "true"]] }

\* args.proxy as the list of its keys in Object.keys order; keys are unique.
ProxyTables ==
    { t \in UNION { [1..n -> ProxyRules] : n \in 0..MaxProxy } :
        \A i, j \in DOMAIN t : i # j => t[i].context # t[j].context }

\* hasProxy is the truthiness of args.proxy; an absent table has no keys.
ArgsSet ==
    { a \in [serve : BOOLEAN, mode : Modes, watch : WatchValues, port : Ports,
             hasProxy : BOOLEAN, proxy : ProxyTables] :
        ~a.hasProxy => a.proxy = <<>> }

\* The configuration the mode's factory returned: opaque to main.ts.
Configs ==
    { [entry |-> [main |-> <<"src/main.ts">>],
       plugins |-> <<"BasePlugin">>,
       outputPath |-> "output/dist"],
      [entry |-> [main |-> <<"src/main.ts", "src/main.css">>, tests |-> <<"tests/all.ts">>],
       plugins |-> <<>>,
       outputPath |-> "undefined"] }

\* What the compiler hands to its run / watch callback.
CallbackInputs == [err : BOOLEAN, stats : {"none", "clean", "errors"}]

\* The statistics a "done" event carries.
DoneStats == {"clean", "errors"}

----------------------------------------------------------------------------
(* Promises: a promise settles at most once; later resolve / reject calls  *)
(* on a settled promise do nothing.                                        *)

NoPromise == [state |-> "none", value |-> "-"]

Pending == [state |-> "pending", value |-> "-"]

resolve(p, v) ==
    IF p.state = "pending" THEN [state |-> "resolved", value |-> v] ELSE p

reject(p, e) ==
    IF p.state = "pending" THEN [state |-> "rejected", value |-> e] ELSE p

----------------------------------------------------------------------------
(* The mutable state as one record, for the operators below *)

St ==
    [config |-> config, returned |-> returned, prod |-> prod, served |-> served,
     chain |-> chain, calls |-> calls, compilers |-> compilers,
     compiler |-> compiler, handlers |-> handlers, spinner |-> spinner,
     app |-> app, isHttps |-> isHttps, listener |-> listener,
     listeners |-> listeners, exited |-> exited,
     warnings |-> warnings, reports |-> reports, cbLog |-> cbLog, hooks |-> hooks]

Commit(s) ==
    /\ config' = s.config
    /\ returned' = s.returned
    /\ prod' = s.prod
    /\ served' = s.served
    /\ chain' = s.chain
    /\ calls' = s.calls
    /\ compilers' = s.compilers
    /\ compiler' = s.compiler
    /\ handlers' = s.handlers
    /\ spinner' = s.spinner
    /\ app' = s.app
    /\ isHttps' = s.isHttps
    /\ listener' = s.listener
    /\ listeners' = s.listeners
    /\ exited' = s.exited
    /\ warnings' = s.warnings
    /\ reports' = s.reports
    /\ cbLog' = s.cbLog
    /\ hooks' = s.hooks
    /\ UNCHANGED <<args, fsKey, fsCrt>>

----------------------------------------------------------------------------
(* The Result Reporter (./logger): records the report and returns whether  *)
(* the statistics contain errors.                                          *)

hasErrors(stats) == stats = "errors"

logger(s, stats, runningMessage) ==
    [s EXCEPT !.reports = Append(@, [stats |-> stats, message |-> runningMessage])]

\* The status messages main.ts builds.
ListeningDots == [text |-> "Listening on port ${args.port}...", port |-> args.port]

Listening == [text |-> "Listening on port ${args.port}", port |-> args.port]

Watching == [text |-> "watching...", port |-> 0]

Empty == [text |-> "", port |-> 0]

----------------------------------------------------------------------------
(* createCompiler, createWatchCompiler *)

\* webpack(config): a new compiler instance wrapping the configuration as it
\* is at this moment.
createCompiler(s) ==
    [s EXCEPT !.compilers = Append(@, s.config)]

\* The compiler of a watch mode: the spinner is started and the "invalid"
\* and "done" handlers are registered.
createWatchCompiler(s) ==
    LET c == createCompiler(s)
    IN  [c EXCEPT !.spinner = TRUE,
                  !.handlers = @ \o <<"invalid:spinner", "done:spinner">>]

\* Variant of the invalid handler that does not restart the spinner.
onInvalid_noStart(s) ==
    [s EXCEPT !.hooks = Append(@, "invalid")]

\* compiler.plugin('invalid', ...): logUpdate(''); spinner.start()
onInvalid(s) ==
    [s EXCEPT !.spinner = TRUE, !.hooks = Append(@, "invalid")]

----------------------------------------------------------------------------
(* build *)

\* The synchronous part of build: compiler, spinner, compiler.run started.
build(s) ==
    LET c == createCompiler(s)
    IN  [c EXCEPT !.calls = Append(@, "build"),
                  !.spinner = TRUE,
                  !.prod = Pending,
                  !.compiler = "running"]

\* Variant of buildFinish that never exits the process.
buildFinish_noExit(s) ==
    [s EXCEPT !.prod = resolve(@, "true")]

\* resolve(args.serve || process.exit(0)): process.exit does not return.
buildFinish(s) ==
    IF args.serve
    THEN [s EXCEPT !.prod = resolve(@, "true")]
    ELSE [s EXCEPT !.exited = "exit0"]

\* Variant of buildCallback without the return after reject({}).
buildCallback_noReturn(s, err, stats) ==
    LET s1 == [s EXCEPT !.spinner = FALSE,
                        !.compiler = "ranOnce",
                        !.cbLog = Append(@, [err |-> err, stats |-> stats])]
        s2 == IF err THEN [s1 EXCEPT !.prod = reject(@, "pipelineError")] ELSE s1
        s3 == logger(s2, stats, IF args.serve THEN ListeningDots ELSE Empty)
    IN  IF stats # "none"
        THEN IF hasErrors(stats)
             THEN buildFinish([s3 EXCEPT !.prod = reject(@, "{}")])
             ELSE buildFinish(s3)
        ELSE buildFinish(s2)

\* The callback build hands to compiler.run.
buildCallback(s, err, stats) ==
    LET s1 == [s EXCEPT !.spinner = FALSE,
                        !.compiler = "ranOnce",
                        !.cbLog = Append(@, [err |-> err, stats |-> stats])]
        s2 == IF err THEN [s1 EXCEPT !.prod = reject(@, "pipelineError")] ELSE s1
        s3 == logger(s2, stats, IF args.serve THEN ListeningDots ELSE Empty)
    IN  IF stats # "none"
        THEN IF hasErrors(stats)
             THEN [s3 EXCEPT !.prod = reject(@, "{}")]
             ELSE buildFinish(s3)
        ELSE buildFinish(s2)

----------------------------------------------------------------------------
(* fileWatch *)

\* The synchronous part of fileWatch: watch compiler, compiler.watch started.
fileWatch(s) ==
    LET c == createWatchCompiler(s)
    IN  [c EXCEPT !.calls = Append(@, "fileWatch"),
                  !.prod = Pending,
                  !.compiler = "watching"]

\* Variant of watchCallback that ignores err.
watchCallback_noReject(s, err, stats) ==
    LET s1 == [s EXCEPT !.cbLog = Append(@, [err |-> err, stats |-> stats])]
        s3 == IF stats # "none"
              THEN logger(s1, stats, IF args.serve THEN Listening ELSE Watching)
              ELSE s1
    IN  [s3 EXCEPT !.prod = resolve(@, "undefined")]

\* Variant of watchCallback that treats compile errors as build does.
watchCallback_rejectOnErrors(s, err, stats) ==
    LET s1 == [s EXCEPT !.cbLog = Append(@, [err |-> err, stats |-> stats])]
        s2 == IF err THEN [s1 EXCEPT !.prod = reject(@, "pipelineError")] ELSE s1
        s3 == IF stats # "none"
              THEN logger(s2, stats, IF args.serve THEN Listening ELSE Watching)
              ELSE s2
    IN  IF hasErrors(stats)
        THEN [s3 EXCEPT !.prod = reject(@, "{}")]
        ELSE [s3 EXCEPT !.prod = resolve(@, "undefined")]

\* The callback fileWatch hands to compiler.watch, called on every pass.
watchCallback(s, err, stats) ==
    LET s1 == [s EXCEPT !.cbLog = Append(@, [err |-> err, stats |-> stats])]
        s2 == IF err THEN [s1 EXCEPT !.prod = reject(@, "pipelineError")] ELSE s1
        s3 == IF stats # "none"
              THEN logger(s2, stats, IF args.serve THEN Listening ELSE Watching)
              ELSE s2
    IN  [s3 EXCEPT !.prod = resolve(@, "undefined")]

----------------------------------------------------------------------------
(* memoryWatch *)

HotClient == "webpack-hot-middleware/client?timeout=20000&reload=true"

Polyfill == "eventsource-polyfill"

unshift(seq, x) == <<x>> \o seq

\* A mounted middleware.
Mw(name, dir, context, options, compilerIx) ==
    [mw |-> name, dir |-> dir, context |-> context, options |-> options,
     compiler |-> compilerIx]

NoOptions == [target |-> "-", changeOrigin |-> "-"]

\* Variant of hotConfig that unshifts the polyfill before the client.
hotConfig_clientFirst(cfg) ==
    [cfg EXCEPT
        !.plugins = @ \o <<"HotModuleReplacementPlugin", "NoEmitOnErrorsPlugin">>,
        !.entry = [name \in DOMAIN @ |-> unshift(unshift(@[name], Polyfill), HotClient)]]

\* plugins.push(...); every entry gets the client, then the polyfill, unshifted.
hotConfig(cfg) ==
    [cfg EXCEPT
        !.plugins = @ \o <<"HotModuleReplacementPlugin", "NoEmitOnErrorsPlugin">>,
        !.entry = [name \in DOMAIN @ |-> unshift(unshift(@[name], HotClient), Polyfill)]]

\* Variant of memoryWatch that mounts the hot-reload middleware first.
memoryWatch_hotFirst(s) ==
    LET s1 == [s EXCEPT !.config = hotConfig(@), !.calls = Append(@, "memoryWatch")]
        c  == createWatchCompiler(s1)
        ix == Len(c.compilers)
    IN  [c EXCEPT !.handlers = Append(@, "done:report"),
                  !.app = @ \o << Mw("hotMiddleware", "-", "-", NoOptions, ix),
                                  Mw("webpackMiddleware", "/", "-", NoOptions, ix) >>,
                  !.compiler = "watching",
                  !.prod = resolve(Pending, "undefined")]

\* Variant of memoryWatch whose promise waits for the first pass.
memoryWatch_pending(s) ==
    LET s1 == [s EXCEPT !.config = hotConfig(@), !.calls = Append(@, "memoryWatch")]
        c  == createWatchCompiler(s1)
        ix == Len(c.compilers)
    IN  [c EXCEPT !.handlers = Append(@, "done:report"),
                  !.app = @ \o << Mw("webpackMiddleware", "/", "-", NoOptions, ix),
                                  Mw("hotMiddleware", "-", "-", NoOptions, ix) >>,
                  !.compiler = "watching",
                  !.prod = Pending]

memoryWatch(s) ==
    LET s1 == [s EXCEPT !.config = hotConfig(@), !.calls = Append(@, "memoryWatch")]
        c  == createWatchCompiler(s1)
        ix == Len(c.compilers)
    IN  [c EXCEPT !.handlers = Append(@, "done:report"),
                  !.app = @ \o << Mw("webpackMiddleware", "/", "-", NoOptions, ix),
                                  Mw("hotMiddleware", "-", "-", NoOptions, ix) >>,
                  !.compiler = "watching",
                  !.prod = resolve(Pending, "undefined")]

\* The "done" handlers, in registration order: spinner.stop(), and under
\* memoryWatch the report of the statistics.
onDone(s, stats) ==
    LET s1 == [s EXCEPT !.spinner = FALSE, !.hooks = Append(@, "done")]
    IN  IF \E i \in DOMAIN s.handlers : s.handlers[i] = "done:report"
        THEN logger(s1, stats, ListeningDots)
        ELSE s1

----------------------------------------------------------------------------
(* serve *)

\* (config.output && config.output.path) || process.cwd()
outputDir(cfg) ==
    IF cfg.outputPath # "undefined" THEN cfg.outputPath ELSE "process.cwd()"

\* Variant of proxyMw without the typeof test: the value is passed as the
\* options whatever it is.
proxyMw_noTypeTest(rule) ==
    Mw("proxy", "-", rule.context, rule.options, 0)

\* The middleware one key of args.proxy is mounted as.
proxyMw(rule) ==
    IF rule.isString
    THEN Mw("proxy", "-", rule.context,
            [target |-> rule.str, changeOrigin |-> "unset"], 0)
    ELSE Mw("proxy", "-", rule.context, rule.options, 0)

\* Variant of serveMiddlewares that mounts static serving whatever watch is.
serveMiddlewares_alwaysStatic(a, cfg) ==
    LET m2 == << Mw("history", "-", "-", NoOptions, 0),
                 Mw("static", outputDir(cfg), "-", NoOptions, 0) >>
    IN  IF a.hasProxy
        THEN m2 \o [i \in DOMAIN a.proxy |-> proxyMw(a.proxy[i])]
        ELSE m2

\* The middlewares serve mounts before it starts its promise chain.
serveMiddlewares(a, cfg) ==
    LET m1 == << Mw("history", "-", "-", NoOptions, 0) >>
        m2 == IF a.watch # "memory"
              THEN Append(m1, Mw("static", outputDir(cfg), "-", NoOptions, 0))
              ELSE m1
    IN  IF a.hasProxy
        THEN m2 \o [i \in DOMAIN a.proxy |-> proxyMw(a.proxy[i])]
        ELSE m2

\* The synchronous part of serve: the application, the TLS check and the
\* promise chain, whose first reaction is queued.
serve(s) ==
    [s EXCEPT !.app = serveMiddlewares(args, s.config),
              !.isHttps = fsKey /\ fsCrt,
              !.served = Pending,
              !.chain = "then1"]

\* Variant of serveProduce in which the memory watch branch does not
\* return and goes on to the file watch.
serveProduce_fallThrough(s) ==
    LET w == [s EXCEPT !.chain = "wait"]
    IN  IF args.watch = "memory" /\ args.mode = "dev"
        THEN fileWatch(memoryWatch(w))
        ELSE IF args.watch # "none"
             THEN IF args.watch = "memory"
                  THEN fileWatch([w EXCEPT !.warnings =
                           Append(@, "Memory watch requires --mode=dev. Using file watch instead...")])
                  ELSE fileWatch(w)
             ELSE build(w)

\* The first reaction of the chain: the production step is selected and
\* started, and the chain waits for its promise.
serveProduce(s) ==
    LET w == [s EXCEPT !.chain = "wait"]
    IN  IF args.watch = "memory" /\ args.mode = "dev"
        THEN memoryWatch(w)
        ELSE IF args.watch # "none"
             THEN IF args.watch = "memory"
                  THEN fileWatch([w EXCEPT !.warnings =
                           Append(@, "Memory watch requires --mode=dev. Using file watch instead...")])
                  ELSE fileWatch(w)
             ELSE build(w)

\* Variant of serveListen that never looks at isHttps.
serveListen_alwaysHttp(s, readable) ==
    [s EXCEPT !.listener = [kind |-> "http", status |-> "binding"],
              !.listeners = Append(@, "http"),
              !.chain = "bind"]

\* Variant of serveListen that falls back to plain HTTP when the key or the
\* certificate cannot be read.
serveListen_fallbackHttp(s, readable) ==
    IF s.isHttps /\ readable
    THEN [s EXCEPT !.listener = [kind |-> "https", status |-> "binding"],
                   !.listeners = Append(@, "https"),
                   !.chain = "bind"]
    ELSE [s EXCEPT !.listener = [kind |-> "http", status |-> "binding"],
                   !.listeners = Append(@, "http"),
                   !.chain = "bind"]

\* The second reaction of the chain, run once the production promise has
\* resolved: the listener is created and listen is called.  readable says
\* whether fs.readFileSync can read the key and the certificate; when it
\* throws, the promise executor rejects the promise.
serveListen(s, readable) ==
    IF s.isHttps
    THEN IF readable
         THEN [s EXCEPT !.listener = [kind |-> "https", status |-> "binding"],
                        !.listeners = Append(@, "https"),
                        !.chain = "bind"]
         ELSE [s EXCEPT !.served = reject(@, "readError"), !.chain = "done"]
    ELSE [s EXCEPT !.listener = [kind |-> "http", status |-> "binding"],
                   !.listeners = Append(@, "http"),
                   !.chain = "bind"]

\* The production promise rejected: the second reaction is skipped and the
\* chain's promise rejects with the same reason.
serveSkip(s) ==
    [s EXCEPT !.served = reject(@, s.prod.value), !.chain = "done"]

\* Variant of listenCallback that ignores its error argument.
listenCallback_ignoreError(s, error) ==
    [s EXCEPT !.served = resolve(@, "undefined"),
              !.listener.status = IF error THEN "failed" ELSE "bound",
              !.chain = "done"]

\* The callback handed to listen.
listenCallback(s, error) ==
    IF error
    THEN [s EXCEPT !.served = reject(@, "listenError"),
                   !.listener.status = "failed",
                   !.chain = "done"]
    ELSE [s EXCEPT !.served = resolve(@, "undefined"),
                   !.listener.status = "bound",
                   !.chain = "done"]

----------------------------------------------------------------------------
(* command.run *)

\* Variant of run without the mode check under serve.
run_noModeCheck(s) ==
    IF args.serve
    THEN [serve(s) EXCEPT !.returned = "serve"]
    ELSE IF args.watch # "none"
         THEN [fileWatch(s) EXCEPT !.returned = "prod"]
         ELSE [build(s) EXCEPT !.returned = "prod"]

\* Variant of run that honours watch = memory without serve.
run_memoryWithoutServe(s) ==
    IF args.serve
    THEN IF args.mode = "test"
         THEN [s EXCEPT !.returned = "modeError"]
         ELSE [serve(s) EXCEPT !.returned = "serve"]
    ELSE IF args.watch # "none"
         THEN IF args.watch = "memory"
              THEN [memoryWatch(s) EXCEPT !.returned = "prod"]
              ELSE [fileWatch(s) EXCEPT !.returned = "prod"]
         ELSE [build(s) EXCEPT !.returned = "prod"]

run(s) ==
    IF args.serve
    THEN IF args.mode = "test"
         THEN [s EXCEPT !.returned = "modeError"]
         ELSE [serve(s) EXCEPT !.returned = "serve"]
    ELSE IF args.watch # "none"
         THEN IF args.watch = "memory"
              THEN [fileWatch([s EXCEPT !.warnings =
                        Append(@, "Memory watch requires the dev server. Using file watch instead...")])
                     EXCEPT !.returned = "prod"]
              ELSE [fileWatch(s) EXCEPT !.returned = "prod"]
         ELSE [build(s) EXCEPT !.returned = "prod"]

\* The promise run returned.
RunPromise ==
    CASE returned = "modeError" -> [state |-> "rejected", value |-> "modeError"]
      [] returned = "serve" -> served
      [] returned = "prod" -> prod
      [] OTHER -> NoPromise

----------------------------------------------------------------------------
(* The state machine *)

Init ==
    /\ args \in ArgsSet
    /\ fsKey \in BOOLEAN
    /\ fsCrt \in BOOLEAN
    /\ config \in Configs
    /\ pc = "init"
    /\ returned = "none"
    /\ prod = NoPromise
    /\ served = NoPromise
    /\ chain = "none"
    /\ calls = <<>>
    /\ compilers = <<>>
    /\ compiler = "none"
    /\ handlers = <<>>
    /\ spinner = FALSE
    /\ app = <<>>
    /\ isHttps = FALSE
    /\ listener = [kind |-> "none", status |-> "none"]
    /\ listeners = <<>>
    /\ exited = "running"
    /\ warnings = <<>>
    /\ reports = <<>>
    /\ cbLog = <<>>
    /\ hooks = <<>>

Alive == pc = "ran" /\ exited = "running"

\* command.run is called.
Run ==
    /\ pc = "init"
    /\ pc' = "ran"
    /\ Commit(run(St))

\* The event loop runs the first reaction of serve's chain.
ServeProduce ==
    /\ Alive
    /\ chain = "then1"
    /\ Commit(serveProduce(St))
    /\ UNCHANGED pc

\* Variant of ServeListen that does not wait for the production promise.
ServeListen_noWait ==
    /\ Alive
    /\ chain = "wait"
    /\ \E readable \in BOOLEAN : Commit(serveListen(St, readable))
    /\ UNCHANGED pc

\* The production promise has resolved: the second reaction runs.
ServeListen ==
    /\ Alive
    /\ chain = "wait"
    /\ prod.state = "resolved"
    /\ \E readable \in BOOLEAN : Commit(serveListen(St, readable))
    /\ UNCHANGED pc

\* The production promise has rejected: the rejection passes down the chain.
ServeSkip ==
    /\ Alive
    /\ chain = "wait"
    /\ prod.state = "rejected"
    /\ Commit(serveSkip(St))
    /\ UNCHANGED pc

\* The listener calls back.
ListenCallback ==
    /\ Alive
    /\ chain = "bind"
    /\ listener.status = "binding"
    /\ \E error \in BOOLEAN : Commit(listenCallback(St, error))
    /\ UNCHANGED pc

\* compiler.run calls back, once.
BuildCallback ==
    /\ Alive
    /\ compiler = "running"
    /\ \E in \in CallbackInputs : Commit(buildCallback(St, in.err, in.stats))
    /\ UNCHANGED pc

\* compiler.watch calls back, after every pass.
WatchCallback ==
    /\ Alive
    /\ compiler = "watching"
    /\ calls = <<"fileWatch">>
    /\ Len(cbLog) < MaxPasses
    /\ \E in \in CallbackInputs : Commit(watchCallback(St, in.err, in.stats))
    /\ UNCHANGED pc

\* The watch compiler emits "invalid".
CompilerInvalid ==
    /\ Alive
    /\ compiler = "watching"
    /\ Len(hooks) < MaxHooks
    /\ Commit(onInvalid(St))
    /\ UNCHANGED pc

\* The watch compiler emits "done".
CompilerDone ==
    /\ Alive
    /\ compiler = "watching"
    /\ Len(hooks) < MaxHooks
    /\ \E stats \in DoneStats : Commit(onDone(St, stats))
    /\ UNCHANGED pc

Next ==
    \/ Run
    \/ ServeProduce
    \/ ServeListen
    \/ ServeSkip
    \/ ListenCallback
    \/ BuildCallback
    \/ WatchCallback
    \/ CompilerInvalid
    \/ CompilerDone

Spec == Init /\ [][Next]_vars

----------------------------------------------------------------------------
(* Properties *)

Rejected(e) == [state |-> "rejected", value |-> e]

Resolved(v) == [state |-> "resolved", value |-> v]

OneShot == pc = "ran" /\ ~args.serve /\ args.watch = "none"

\* The passes of a file watch that delivered statistics, as the reports
\* they must have produced.
ExpectedWatchReports ==
    LET withStats == SelectSeq(cbLog, LAMBDA c : c.stats # "none")
    IN  [i \in DOMAIN withStats |->
            [stats |-> withStats[i].stats,
             message |-> IF args.serve THEN Listening ELSE Watching]]

\* The completed passes of a memory watch: its "done" events.
DoneCount == Len(SelectSeq(hooks, LAMBDA h : h = "done"))

\* C1: with serve set and mode = test, run returns a promise rejected with
\* the mode-incompatibility error, and no build, fileWatch, memoryWatch or
\* listen is ever invoked, whatever watch, port and proxy are.
C1_ModeErrorBeforeAnyOperation ==
    (pc = "ran" /\ args.serve /\ args.mode = "test") =>
        /\ RunPromise = Rejected("modeError")
        /\ calls = <<>>
        /\ compilers = <<>>
        /\ chain = "none"
        /\ app = <<>>
        /\ listener.kind = "none"

C1_Witness ==
    /\ pc = "ran" /\ args.serve /\ args.mode = "test"
    /\ args.watch = "memory" /\ args.hasProxy /\ fsKey /\ fsCrt
    /\ RunPromise.state = "rejected"

\* C2: in a one-shot build the process exits with code 0 only when the
\* pipeline reported no pipeline error and the reporter no compile errors;
\* a callback carrying a pipeline error never ends in exit code 0 but in a
\* promise rejected with that error.
C2_ExitZeroOnlyOnCleanRun ==
    (OneShot /\ cbLog # <<>>) =>
        /\ exited = "exit0" => (~cbLog[1].err /\ ~hasErrors(cbLog[1].stats))
        /\ cbLog[1].err => (exited = "running" /\ RunPromise = Rejected("pipelineError"))

\* C3: in a one-shot build without serve, a pipeline that completes with no
\* pipeline error and no error diagnostics makes the process exit with
\* code 0, and no listener is ever started in such a run.
C3_CleanOneShotExitsZero ==
    OneShot =>
        /\ listener.kind = "none"
        /\ chain = "none"
        /\ (cbLog # <<>> /\ ~cbLog[1].err /\ ~hasErrors(cbLog[1].stats))
              => exited = "exit0"

C3_Witness ==
    /\ OneShot
    /\ cbLog = << [err |-> FALSE, stats |-> "clean"] >>
    /\ exited = "exit0"
    /\ listener.kind = "none"

\* C4: when the pipeline of build completes and the reporter signals
\* errors, the promise of build is rejected, with serve and without; the
\* process does not exit with code 0 and no listener is started.
C4_CompileErrorsReject ==
    (calls = <<"build">> /\ cbLog # <<>> /\ hasErrors(cbLog[1].stats)) =>
        /\ prod.state = "rejected"
        /\ exited = "running"
        /\ listener.kind = "none"
        /\ served.state # "resolved"

C4_Witness ==
    /\ args.serve
    /\ calls = <<"build">>
    /\ cbLog = << [err |-> FALSE, stats |-> "errors"] >>
    /\ prod = Rejected("{}")
    /\ chain = "done"

\* C5: under serve with watch = memory and mode = dist, once the production
\* step has been selected a warning has been emitted, fileWatch is the step
\* that runs and the application carries the middlewares of the same run
\* with watch = file: history fallback, static serving, proxy rules.
C5_MemoryDowngradeSameAsFile ==
    (args.serve /\ args.watch = "memory" /\ args.mode = "dist"
        /\ chain \in {"wait", "bind", "done"}) =>
        /\ warnings # <<>>
        /\ calls = <<"fileWatch">>
        /\ app = serveMiddlewares([args EXCEPT !.watch = "file"], config)

\* C6: the listener is bound (or being bound) only once the production step
\* selected for the run has been started and its promise has resolved.
C6_ListenAfterProduction ==
    listener.kind # "none" =>
        /\ Len(calls) = 1
        /\ Len(compilers) = 1
        /\ prod.state = "resolved"

C6_Witness ==
    /\ listener = [kind |-> "https", status |-> "binding"]
    /\ calls = <<"fileWatch">>
    /\ prod.state = "resolved"

\* C7: in serve, a rejected production step leaves the listener unbound and
\* the serve promise rejected with the same failure; a listen error rejects
\* the serve promise with that error; the serve promise resolves only when
\* the bind succeeded.
C7_ServeFailures ==
    (pc = "ran" /\ args.serve) =>
        /\ prod.state = "rejected" =>
              /\ listener.kind = "none"
              /\ served.state # "resolved"
              /\ (chain = "done" => served = Rejected(prod.value))
        /\ listener.status = "failed" => served = Rejected("listenError")
        /\ served.state = "resolved" => listener.status = "bound"

C7_Witness ==
    /\ args.serve
    /\ calls = <<"fileWatch">>
    /\ prod = Rejected("pipelineError")
    /\ served = Rejected("pipelineError")
    /\ chain = "done"
    /\ Len(cbLog) = 2

\* C8: the promise of fileWatch is pending until the first watch callback
\* and from then on holds the outcome of that first callback (rejected with
\* the error if it carried one, resolved otherwise), whatever the later
\* callbacks carry.
C8_WatchPromiseSettlesOnce ==
    calls = <<"fileWatch">> =>
        /\ cbLog = <<>> => prod = Pending
        /\ cbLog # <<>> =>
              prod = IF cbLog[1].err THEN Rejected("pipelineError")
                                     ELSE Resolved("undefined")

C8_Witness ==
    /\ calls = <<"fileWatch">>
    /\ cbLog = << [err |-> FALSE, stats |-> "clean"], [err |-> TRUE, stats |-> "errors"] >>
    /\ prod = Resolved("undefined")
    /\ Len(reports) = 2

\* C9 as stated: for file watch and memory watch the promise of the run
\* mode is never settled before the compiler has completed its first pass.
C9_SettledOnlyAfterFirstPass ==
    /\ (calls = <<"fileWatch">> /\ prod.state \in {"resolved", "rejected"})
          => Len(cbLog) >= 1
    /\ (calls = <<"memoryWatch">> /\ prod.state \in {"resolved", "rejected"})
          => DoneCount >= 1

\* C9 amended: the promise of fileWatch is settled exactly when its first
\* pass has called back; the promise of memoryWatch is resolved as soon as
\* memoryWatch returns, before any pass; in both the compiler keeps watching.
C9_SettlePoints ==
    /\ calls = <<"fileWatch">> =>
          /\ prod.state \in {"resolved", "rejected"} <=> Len(cbLog) >= 1
          /\ compiler = "watching"
    /\ calls = <<"memoryWatch">> =>
          /\ prod = Resolved("undefined")
          /\ compiler = "watching"

C9_Witness ==
    /\ calls = <<"memoryWatch">>
    /\ prod.state = "resolved"
    /\ DoneCount = 0
    /\ listener.status = "bound"

\* C10: in fileWatch every pass that delivers statistics is reported once,
\* with "Listening on port N" under serve and "watching..." otherwise; the
\* promise is rejected only by a pipeline error of the first pass, never by
\* compile errors; the process does not exit and the compiler keeps
\* watching, so that a further pass can occur.
C10_WatchReportsAndKeepsRunning ==
    calls = <<"fileWatch">> =>
        /\ reports = ExpectedWatchReports
        /\ prod.state = "rejected" => cbLog[1].err
        /\ exited = "running"
        /\ compiler = "watching"
        /\ Len(cbLog) < MaxPasses => ENABLED WatchCallback

C10_Witness ==
    /\ calls = <<"fileWatch">>
    /\ ~args.serve
    /\ cbLog = << [err |-> FALSE, stats |-> "errors"], [err |-> FALSE, stats |-> "clean"] >>
    /\ prod = Resolved("undefined")
    /\ Len(reports) = 2

MemoryDevServe == args.serve /\ args.watch = "memory" /\ args.mode = "dev"

\* The positions of the middlewares of the given name on the application.
Mounted(name) == { i \in DOMAIN app : app[i].mw = name }

\* C11: under serve with watch = memory and mode = dev the application
\* never carries the static serving middleware, and once a listener has
\* been started it carries the in-memory serving middleware immediately
\* followed by the hot-reload middleware, both bound to the one compiler
\* instance that was constructed.
C11_MemoryDevMiddlewares ==
    MemoryDevServe =>
        /\ Mounted("static") = {}
        /\ listeners # <<>> =>
              /\ Len(compilers) = 1
              /\ \E i \in DOMAIN app :
                    /\ Mounted("webpackMiddleware") = {i}
                    /\ Mounted("hotMiddleware") = {i + 1}
                    /\ app[i].compiler = 1
                    /\ app[i + 1].compiler = 1

C11_Witness ==
    /\ MemoryDevServe
    /\ listener.status = "bound"
    /\ Mounted("webpackMiddleware") # {}
    /\ Mounted("proxy") # {}

\* C12: the step that runs memoryWatch leaves every entry point as the
\* polyfill module, then the hot-reload client module, then the entry's
\* modules of before in their order, leaves the plugin list as the list of
\* before followed by the hot-reload plugin and the abort-emission-on-error
\* plugin, and constructs its one compiler on the configuration so mutated.
C12_HotReloadConfig ==
    [][ (calls = <<>> /\ calls' = <<"memoryWatch">>) =>
            /\ DOMAIN config'.entry = DOMAIN config.entry
            /\ \A name \in DOMAIN config.entry :
                  config'.entry[name] = <<Polyfill, HotClient>> \o config.entry[name]
            /\ config'.plugins =
                  config.plugins \o <<"HotModuleReplacementPlugin", "NoEmitOnErrorsPlugin">>
            /\ config'.outputPath = config.outputPath
            /\ compilers' = <<config'>> ]_vars

C12_Witness ==
    /\ calls = <<"memoryWatch">>
    /\ DOMAIN config.entry = {"main", "tests"}
    /\ config.entry["tests"] = <<Polyfill, HotClient, "tests/all.ts">>
    /\ Len(config.plugins) = 2
    /\ compilers = <<config>>

\* The proxy middlewares on the application, in mounting order.
ProxyMounted == SelectSeq(app, LAMBDA m : m.mw = "proxy")

\* C13: once serve has run, the proxy middlewares on the application are
\* one per key of args.proxy, in key order: a bare string is mounted with
\* options holding that string as target and nothing else, any other value
\* with the record supplied; without a proxy table none is mounted.
C13_ProxyRulesInOrder ==
    (pc = "ran" /\ args.serve /\ args.mode # "test") =>
        /\ Len(ProxyMounted) = IF args.hasProxy THEN Len(args.proxy) ELSE 0
        /\ \A i \in DOMAIN ProxyMounted :
              /\ ProxyMounted[i].context = args.proxy[i].context
              /\ ProxyMounted[i].options =
                    IF args.proxy[i].isString
                    THEN [target |-> args.proxy[i].str, changeOrigin |-> "unset"]
                    ELSE args.proxy[i].options

C13_Witness ==
    /\ pc = "ran" /\ args.serve
    /\ Len(args.proxy) = 2
    /\ args.proxy[1].context = "/b"
    /\ Len(ProxyMounted) = 2
    /\ ProxyMounted[1].options = [target |-> "http://y", changeOrigin |-> "true"]
    /\ ProxyMounted[2].options = [target |-> "http://x", changeOrigin |-> "unset"]

\* serve's second reaction has run.
ListenStepRan ==
    args.serve /\ prod.state = "resolved" /\ chain \in {"bind", "done"}

\* C14 as stated: once the listen step has run, an HTTPS listener has been
\* started if both .cert files were present and a plain HTTP listener if
\* either was missing; never more than one listener.
C14_TlsFilesSelectListener ==
    /\ Len(listeners) <= 1
    /\ ListenStepRan =>
          listeners = IF fsKey /\ fsCrt THEN <<"https">> ELSE <<"http">>

\* C14 amended: once the listen step has run, a plain HTTP listener has
\* been started if either .cert file was missing; if both were present, an
\* HTTPS listener has been started when the key and the certificate could
\* be read, and no listener at all when they could not; never more than one
\* listener, and an HTTPS listener only when both files were present.
C14_TlsFilesSelectListenerIfReadable ==
    /\ Len(listeners) <= 1
    /\ listeners = <<"https">> => (fsKey /\ fsCrt)
    /\ ListenStepRan =>
          IF fsKey /\ fsCrt
          THEN IF served = Rejected("readError")
               THEN listeners = <<>>
               ELSE listeners = <<"https">>
          ELSE listeners = <<"http">>

C14_Witness ==
    /\ ListenStepRan
    /\ fsKey /\ ~fsCrt
    /\ listeners = <<"http">>
    /\ listener.status = "bound"

\* C15: without serve, run never starts a listener, never mounts a
\* middleware and never invokes memoryWatch, in every mode: a set watch
\* value leads to fileWatch, with a warning exactly when it is memory, and
\* an unset watch leads to the one-shot build.
C15_NoServeNoListener ==
    (pc = "ran" /\ ~args.serve) =>
        /\ listeners = <<>>
        /\ listener.kind = "none"
        /\ chain = "none"
        /\ app = <<>>
        /\ calls = IF args.watch # "none" THEN <<"fileWatch">> ELSE <<"build">>
        /\ Len(warnings) = IF args.watch = "memory" THEN 1 ELSE 0

C15_Witness ==
    /\ pc = "ran" /\ ~args.serve
    /\ args.watch = "memory" /\ args.mode = "dev"
    /\ calls = <<"fileWatch">>
    /\ warnings = <<"Memory watch requires the dev server. Using file watch instead...">>
    /\ Len(cbLog) = 2

\* C16: while a watch compiler exists, the spinner is spinning exactly when
\* no lifecycle event has been emitted since construction or the latest one
\* is "invalid"; and a step that delivers a lifecycle event changes no
\* promise and does not exit the process.
C16_SpinnerFollowsLifecycle ==
    /\ [](compiler = "watching" =>
            (spinner <=> (hooks = <<>> \/ hooks[Len(hooks)] = "invalid")))
    /\ [][ hooks' # hooks =>
              /\ prod' = prod
              /\ served' = served
              /\ exited' = exited
              /\ compiler' = "watching" ]_vars

C16_Witness ==
    /\ compiler = "watching"
    /\ hooks = <<"done", "invalid">>
    /\ spinner
    /\ prod.state = "pending"

\* The production step of the run has been started.
ProductionStarted ==
    pc = "ran" /\ (~args.serve \/ chain \in {"wait", "bind", "done"})

\* C17: a run constructs at most one compiler instance, and it does so in
\* the one run mode it invokes (build, fileWatch or memoryWatch): never two
\* run modes, never a compiler without a run mode, and every middleware
\* bound to a compiler is bound to that instance.
C17_OneCompilerOneRunMode ==
    /\ Len(calls) <= 1
    /\ Len(compilers) = Len(calls)
    /\ \A i \in DOMAIN calls : calls[i] \in {"build", "fileWatch", "memoryWatch"}
    /\ \A i \in DOMAIN app : app[i].compiler \in {0} \cup DOMAIN compilers
    /\ ProductionStarted => Len(calls) = 1
    /\ (compiler # "none") <=> (Len(compilers) = 1)

C17_Witness ==
    /\ MemoryDevServe
    /\ calls = <<"memoryWatch">>
    /\ Len(compilers) = 1
    /\ listener.status = "bound"
    /\ Len(hooks) = 2

IsPrefix(a, b) == Len(a) <= Len(b) /\ \A i \in DOMAIN a : a[i] = b[i]

\* The fixed sequence of middlewares of a serve run: history fallback,
\* static serving unless watch = memory, the proxy rules in table order,
\* and under memory watch in dev mode the in-memory serving and hot-reload
\* middlewares of the run's compiler.
FixedSequence ==
    LET none == [target |-> "-", changeOrigin |-> "-"]
        history == << [mw |-> "history", dir |-> "-", context |-> "-",
                       options |-> none, compiler |-> 0] >>
        static == IF args.watch = "memory"
                  THEN <<>>
                  ELSE << [mw |-> "static",
                           dir |-> IF config.outputPath = "undefined"
                                   THEN "process.cwd()" ELSE config.outputPath,
                           context |-> "-", options |-> none, compiler |-> 0] >>
        rules == [i \in DOMAIN args.proxy |->
                    [mw |-> "proxy", dir |-> "-", context |-> args.proxy[i].context,
                     options |-> IF args.proxy[i].isString
                                 THEN [target |-> args.proxy[i].str, changeOrigin |-> "unset"]
                                 ELSE args.proxy[i].options,
                     compiler |-> 0]]
        memory == IF args.watch = "memory" /\ args.mode = "dev"
                  THEN << [mw |-> "webpackMiddleware", dir |-> "/", context |-> "-",
                           options |-> none, compiler |-> 1],
                          [mw |-> "hotMiddleware", dir |-> "-", context |-> "-",
                           options |-> none, compiler |-> 1] >>
                  ELSE <<>>
    IN  history \o static \o rules \o memory

\* C18: in every state the middlewares mounted on the application are a
\* prefix of the fixed sequence of the run, and no step changes them once a
\* listener has been told to listen.
C18_MiddlewaresPrefixOfFixedSequence ==
    /\ [](IsPrefix(app, FixedSequence))
    /\ [][ listeners # <<>> => app' = app ]_vars

C18_Witness ==
    /\ MemoryDevServe
    /\ Len(args.proxy) = 2
    /\ app = FixedSequence
    /\ Len(app) = 5
    /\ listener.status = "bound"
    /\ Len(hooks) = 2

\* C19: isHttps is decided from the presence of the two files when serve is
\* called, before the production step, and stays as decided; when both
\* files were present no plain HTTP listener is ever started, and when the
\* key or the certificate cannot be read at the listen step the serve
\* promise is rejected with the read error and no listener of either kind
\* has been started.
C19_TlsDecidedOnceNoFallback ==
    /\ chain # "none" => (isHttps <=> (fsKey /\ fsCrt))
    /\ (fsKey /\ fsCrt) => \A i \in DOMAIN listeners : listeners[i] # "http"
    /\ served = Rejected("readError") =>
          /\ isHttps
          /\ listeners = <<>>
          /\ listener.kind = "none"
          /\ chain = "done"
    /\ (ListenStepRan /\ listeners = <<>>) => served = Rejected("readError")

C19_Witness ==
    /\ fsKey /\ fsCrt
    /\ calls = <<"fileWatch">>
    /\ prod.state = "resolved"
    /\ served = Rejected("readError")
    /\ listeners = <<>>
    /\ Len(cbLog) = 2

====
